---- MODULE Spec2Model ----
(***************************************************************************)
(* A model of SinusoidModel (src/sinusoid.py): base frequencies, modes,    *)
(* the co-indexed list of Sinusoid objects, the DC offset, the flat fit-   *)
(* parameter vector and fit_to_data with its canonicalization pass.        *)
(*                                                                         *)
(* Floats are modelled by integers.  Phases are counted in units of pi,    *)
(* so that Pi == 1 and 2*pi == 2.  A Sinusoid is a record of its three     *)
(* stored fields (angular_frequency is a function of frequency only).      *)
(* The least-squares solver is the environment: it returns any vector of   *)
(* the length it was given, with a converged or a non-converged status,    *)
(* or it raises.                                                           *)
(***************************************************************************)
EXTENDS Integers, Sequences, FiniteSets, TLC

VARIABLES frequencies,    \* self._frequencies: [type |-> "tuple" or "float", v |-> values]
          modes,          \* self._modes
          sinusoids,      \* self._sinusoids
          dc_offset,      \* self.dc_offset
          op,             \* the operation that ran last
          arg,            \* its argument (for fit_to_data: the vector the solver gave)
          result,         \* "ok" when it returned, else the exception it raised
          solver_status   \* what optimize.leastsq reported in the last fit_to_data

vars == <<frequencies, modes, sinusoids, dc_offset, op, arg, result, solver_status>>

\* ---------------------------------------------------------------- bounds
MaxFreqs == 2
MaxModes == 2
Pi == 1

TwoPi == 2 * Pi
FreqVals == {1, 2}
WeightVals == {-1, 0, 1}
ParamVals == {-1, 2}
MaxVec == 2 * MaxModes + 1

SeqsUpTo(S, n) == UNION {[1..k -> S] : k \in 0..n}

\* Arguments of the frequencies setter: an iterable of floats, or one float.
FreqIterables == {[type |-> "iterable", v |-> s] : s \in SeqsUpTo(FreqVals, MaxFreqs)}
FreqFloats == {[type |-> "float", v |-> <<f>>] : f \in FreqVals}
FreqArgs == FreqIterables \cup FreqFloats

\* Mode lists: up to MaxModes modes of 0..MaxFreqs integer weights each.
Modes == SeqsUpTo(WeightVals, MaxFreqs)
ModeLists == SeqsUpTo(Modes, MaxModes)

\* Parameter vectors, by length.
Vec == [k \in 0..MaxVec |-> [1..k -> ParamVals]]
AllVec == UNION {Vec[k] : k \in 0..MaxVec}
Ones(k) == [i \in 1..k |-> 1]

\* ------------------------------------------------------------- Sinusoid
Sinusoid(frequency, amplitude, phase) ==
    [frequency |-> frequency, amplitude |-> amplitude, phase |-> phase]

\* ------------------------------------------------------ helper functions
RECURSIVE DotFrom(_, _, _)
DotFrom(f, m, i) ==
    IF i > Len(f) THEN 0 ELSE f[i] * m[i] + DotFrom(f, m, i + 1)

\* (np.array(self.frequencies) * np.array(mode)).sum()
DerivedFrequency(f, mode) == DotFrom(f, mode, 1)

\* Mutant: only a derived frequency of exactly zero is rejected.
ZeroFrequencyOnlyZero(frequency) == frequency = 0

\* if not (frequency > 0): raise ValueError('Zero frequency mode given.')
ZeroFrequency(frequency) == ~(frequency > 0)

\* ------------------------------------------------- frequencies.setter
\* tuple([f for f in freq]), or the bare value when freq is not iterable.
FrequenciesSetter(freq) ==
    IF freq.type = "iterable"
    THEN [type |-> "tuple", v |-> [i \in 1..Len(freq.v) |-> freq.v[i]]]
    ELSE [type |-> "float", v |-> freq.v]

\* ------------------------------------------------------- modes.setter
\* The loop of the setter from mode i on, with ms and ss what has been
\* appended so far; the exception leaves self._modes and self._sinusoids
\* as the loop left them.
\* Mutant: the mode is appended to self._modes before its derived frequency
\* is checked.
RECURSIVE ModesLoopModeFirst(_, _, _, _, _)
ModesLoopModeFirst(mode_list, freqs, i, ms, ss) ==
    IF i > Len(mode_list)
    THEN [modes |-> ms, sinusoids |-> ss, result |-> "ok"]
    ELSE LET mode == mode_list[i] IN
         IF freqs.type # "tuple"
         THEN [modes |-> ms, sinusoids |-> ss, result |-> "TypeError"]
         ELSE IF Len(mode) # Len(freqs.v)
         THEN [modes |-> ms, sinusoids |-> ss, result |-> "ValueError"]
         ELSE LET frequency == DerivedFrequency(freqs.v, mode) IN
              IF ZeroFrequency(frequency)
              THEN [modes |-> Append(ms, mode), sinusoids |-> ss,
                    result |-> "ValueError"]
              ELSE ModesLoopModeFirst(mode_list, freqs, i + 1,
                                      Append(ms, mode),
                                      Append(ss, Sinusoid(frequency, 0, 0)))

RECURSIVE ModesLoop(_, _, _, _, _)
ModesLoop(mode_list, freqs, i, ms, ss) ==
    IF i > Len(mode_list)
    THEN [modes |-> ms, sinusoids |-> ss, result |-> "ok"]
    ELSE LET mode == mode_list[i] IN
         IF freqs.type # "tuple"
         THEN [modes |-> ms, sinusoids |-> ss, result |-> "TypeError"]
         ELSE IF Len(mode) # Len(freqs.v)
         THEN [modes |-> ms, sinusoids |-> ss, result |-> "ValueError"]
         ELSE LET frequency == DerivedFrequency(freqs.v, mode) IN
              IF ZeroFrequency(frequency)
              THEN [modes |-> ms, sinusoids |-> ss, result |-> "ValueError"]
              ELSE ModesLoop(mode_list, freqs, i + 1,
                             Append(ms, mode),
                             Append(ss, Sinusoid(frequency, 0, 0)))

ModesSetter(mode_list, freqs) == ModesLoop(mode_list, freqs, 1, <<>>, <<>>)

\* --------------------------------------------------- _fit_parameters
\* getter
FitParameters(dc, ss) ==
    [i \in 1..(1 + 2 * Len(ss)) |->
        IF i = 1 THEN dc
        ELSE IF i % 2 = 0 THEN ss[i \div 2].amplitude
        ELSE ss[i \div 2].phase]

\* Mutant: amplitude and phase are read from the vector in the other order.
RECURSIVE FitLoopSwapped(_, _, _, _)
FitLoopSwapped(sines, dc, ss, i) ==
    IF i >= Len(sines) \div 2
    THEN [dc_offset |-> dc, sinusoids |-> ss, result |-> "ok"]
    ELSE IF i + 1 > Len(ss)
    THEN [dc_offset |-> dc, sinusoids |-> ss, result |-> "IndexError"]
    ELSE FitLoopSwapped(sines, dc,
                        [ss EXCEPT ![i + 1].amplitude = sines[2 * i + 2],
                                   ![i + 1].phase = sines[2 * i + 1]],
                        i + 1)

\* The setter's loop from pair i (0-based) on.
RECURSIVE FitLoop(_, _, _, _)
FitLoop(sines, dc, ss, i) ==
    IF i >= Len(sines) \div 2
    THEN [dc_offset |-> dc, sinusoids |-> ss, result |-> "ok"]
    ELSE IF i + 1 > Len(ss)
    THEN [dc_offset |-> dc, sinusoids |-> ss, result |-> "IndexError"]
    ELSE FitLoop(sines, dc,
                 [ss EXCEPT ![i + 1].amplitude = sines[2 * i + 1],
                            ![i + 1].phase = sines[2 * i + 2]],
                 i + 1)

\* setter
FitParametersSetter(p, dc, ss) ==
    IF Len(p) = 0
    THEN [dc_offset |-> dc, sinusoids |-> ss, result |-> "IndexError"]
    ELSE LET sines == Tail(p) IN
         IF Len(sines) % 2 = 1
         THEN [dc_offset |-> p[1], sinusoids |-> ss, result |-> "ValueError"]
         ELSE FitLoop(sines, p[1], ss, 0)

\* ---------------------------------------------------- canonicalization
RECURSIVE PhaseDown(_)
PhaseDown(phase) == IF phase > TwoPi THEN PhaseDown(phase - TwoPi) ELSE phase

RECURSIVE PhaseUp(_)
PhaseUp(phase) == IF phase < 0 THEN PhaseUp(phase + TwoPi) ELSE phase

Canonical(s) ==
    LET neg == s.amplitude < 0
        a == IF neg THEN s.amplitude * (-1) ELSE s.amplitude
        p == IF neg THEN s.phase + Pi ELSE s.phase
    IN [s EXCEPT !.amplitude = a, !.phase = PhaseUp(PhaseDown(p))]

CanonicalAll(ss) == [i \in 1..Len(ss) |-> Canonical(ss[i])]

\* ------------------------------------------------------------ __init__
\* self._sinusoids = []; the two setters; dc_offset = 0; then the fit
\* parameters when amp_phase is given.  An exception leaves the function
\* at once.
Constructor(freq, mode_list, amp_phase) ==
    LET f == FrequenciesSetter(freq)
        m == ModesSetter(mode_list, f)
        base == [frequencies |-> f, modes |-> m.modes, sinusoids |-> m.sinusoids,
                 dc_offset |-> 0, result |-> m.result]
    IN IF m.result # "ok" THEN base
       ELSE IF amp_phase = <<>> THEN base
       ELSE LET r == FitParametersSetter(amp_phase, 0, m.sinusoids) IN
            [base EXCEPT !.sinusoids = r.sinusoids, !.dc_offset = r.dc_offset,
                         !.result = r.result]

Construct(freq, mode_list, amp_phase) ==
    LET c == Constructor(freq, mode_list, amp_phase) IN
    /\ frequencies = c.frequencies
    /\ modes = c.modes
    /\ sinusoids = c.sinusoids
    /\ dc_offset = c.dc_offset
    /\ op = "__init__"
    /\ arg = mode_list
    /\ result = c.result
    /\ solver_status = "none"

\* A constructor that raised returned no object: nothing can be called on it.
Constructed == ~(op = "__init__" /\ result # "ok")

\* ------------------------------------------------------------- actions
SetFrequencies(freq) ==
    /\ Constructed
    /\ frequencies' = FrequenciesSetter(freq)
    /\ op' = "frequencies"
    /\ arg' = freq.v
    /\ result' = "ok"
    /\ solver_status' = "none"
    /\ UNCHANGED <<modes, sinusoids, dc_offset>>

\* Mutant: the new frequencies are put in front of the old ones.
AddFrequencyResultPrepend(freqs, new) ==
    IF freqs.type # "tuple"
    THEN [frequencies |-> freqs, result |-> "TypeError"]
    ELSE [frequencies |-> FrequenciesSetter([type |-> "iterable", v |-> new \o freqs.v]),
          result |-> "ok"]

\* all_frequencies = list(self.frequencies) with the new ones appended;
\* list() raises when _frequencies is a bare float.
AddFrequencyResult(freqs, new) ==
    IF freqs.type # "tuple"
    THEN [frequencies |-> freqs, result |-> "TypeError"]
    ELSE [frequencies |-> FrequenciesSetter([type |-> "iterable", v |-> freqs.v \o new]),
          result |-> "ok"]

AddFrequency(new) ==
    /\ Constructed
    /\ Len(frequencies.v) + Len(new) <= MaxFreqs
    /\ LET r == AddFrequencyResult(frequencies, new) IN
       /\ frequencies' = r.frequencies
       /\ result' = r.result
    /\ op' = "add_frequency"
    /\ arg' = new
    /\ solver_status' = "none"
    /\ UNCHANGED <<modes, sinusoids, dc_offset>>

SetModes(mode_list) ==
    /\ Constructed
    /\ \E r \in {ModesSetter(mode_list, frequencies)} :
       /\ modes' = r.modes
       /\ sinusoids' = r.sinusoids
       /\ result' = r.result
    /\ op' = "modes"
    /\ arg' = mode_list
    /\ solver_status' = "none"
    /\ UNCHANGED <<frequencies, dc_offset>>

SetFitParameters(p) ==
    /\ Constructed
    /\ \E r \in {FitParametersSetter(p, dc_offset, sinusoids)} :
       /\ dc_offset' = r.dc_offset
       /\ sinusoids' = r.sinusoids
       /\ result' = r.result
    /\ op' = "_fit_parameters"
    /\ arg' = p
    /\ solver_status' = "none"
    /\ UNCHANGED <<frequencies, modes>>

\* optimize.leastsq: it calls errfunc with vectors of the length of x0, each
\* call installing its vector (the first one is x0 itself), and then returns
\* a vector x with a status, or raises; x is then the last vector errfunc
\* installed.
SolverOutcomes == {"converged", "not_converged", "raised", "raised_at_x0"}

\* initial_parameters, or the all-ones vector of the getter's length
InitialParameters(initial_parameters, dc, ss) ==
    IF initial_parameters = <<>>
    THEN Ones(Len(FitParameters(dc, ss)))
    ELSE initial_parameters

\* From the call of the solver on: dc and ss are the model with the initial
\* vector installed.
SolveAndInstall(outcome, x, dc, ss) ==
    LET r1 == FitParametersSetter(x, dc, ss) IN
    IF outcome \in {"raised", "raised_at_x0"}
    THEN [dc_offset |-> r1.dc_offset, sinusoids |-> r1.sinusoids, arg |-> x,
          result |-> "SolverError", solver_status |-> "raised"]
    ELSE [dc_offset |-> r1.dc_offset, sinusoids |-> CanonicalAll(r1.sinusoids),
          arg |-> x, result |-> r1.result, solver_status |-> outcome]

\* X[k]: the vectors of length k the solver may return.  The solver is
\* not reached when installing the initial vector raises.
FitToData(initial_parameters, X) ==
    /\ Constructed
    /\ \E p0 \in {InitialParameters(initial_parameters, dc_offset, sinusoids)} :
       \E r0 \in {FitParametersSetter(p0, dc_offset, sinusoids)} :
          IF r0.result # "ok"
          THEN /\ dc_offset' = r0.dc_offset
               /\ sinusoids' = r0.sinusoids
               /\ arg' = <<>>
               /\ result' = r0.result
               /\ solver_status' = "none"
          ELSE \E outcome \in SolverOutcomes :
               \E x \in IF outcome = "raised_at_x0" THEN {p0} ELSE X[Len(p0)] :
               \E r \in {SolveAndInstall(outcome, x, r0.dc_offset, r0.sinusoids)} :
                  /\ dc_offset' = r.dc_offset
                  /\ sinusoids' = r.sinusoids
                  /\ arg' = r.arg
                  /\ result' = r.result
                  /\ solver_status' = r.solver_status
    /\ op' = "fit_to_data"
    /\ UNCHANGED <<frequencies, modes>>

\* initial_parameters as given by the caller: none, or ones of any length
InitialArgs == {Ones(k) : k \in 0..MaxVec}

\* ------------------------------------------------------ specifications
\* Spec explores the shapes: every frequencies argument and every mode
\* list, with all-ones parameter vectors.
OnesVec == [k \in 0..MaxVec |-> {Ones(k)}]

Init ==
    \E freq \in FreqArgs, mode_list \in ModeLists, amp_phase \in {Ones(k) : k \in 0..3} :
        Construct(freq, mode_list, amp_phase)

Next ==
    \/ \E freq \in FreqArgs : SetFrequencies(freq)
    \/ \E new \in SeqsUpTo(FreqVals, MaxFreqs) : AddFrequency(new)
    \/ \E mode_list \in ModeLists : SetModes(mode_list)
    \/ \E p \in InitialArgs : SetFitParameters(p)
    \/ \E initial_parameters \in InitialArgs : FitToData(initial_parameters, OnesVec)

Spec == Init /\ [][Next]_vars

\* SpecFit explores the parameter values: every vector over ParamVals, on
\* models of up to MaxModes modes <<1>> over the frequencies () and (1).
LeanFreqArgs == {[type |-> "iterable", v |-> s] : s \in {<<>>, <<1>>}}
LeanModeLists == SeqsUpTo({<<1>>}, MaxModes)

InitFit ==
    \E freq \in LeanFreqArgs, mode_list \in LeanModeLists,
       amp_phase \in {<<>>} \cup Vec[1] \cup Vec[3] :
        Construct(freq, mode_list, amp_phase)

NextFit ==
    \/ \E freq \in LeanFreqArgs : SetFrequencies(freq)
    \/ \E new \in {<<1>>} : AddFrequency(new)
    \/ \E mode_list \in LeanModeLists : SetModes(mode_list)
    \/ \E p \in AllVec : SetFitParameters(p)
    \/ \E initial_parameters \in InitialArgs : FitToData(initial_parameters, Vec)

SpecFit == InitFit /\ [][NextFit]_vars

\* ---------------------------------------------------------------- claims
IsTuple == frequencies.type = "tuple"

\* A mode as the setter accepts it: one weight per frequency, and a
\* strictly positive derived frequency.
ModeAccepted(mode, f) == Len(mode) = Len(f) /\ DerivedFrequency(f, mode) > 0

\* C1: every stored mode has exactly len(frequencies) components, in every
\* reachable state (add_frequency and frequencies assignment re-validate
\* the modes).  The code leaves the modes of the old width.
C1_ModesHaveFrequencyCount ==
    IsTuple => \A i \in 1..Len(modes) : Len(modes[i]) = Len(frequencies.v)

C3_FailedModesChangeNothing ==
    [][(op' = "modes" /\ result' # "ok") =>
         UNCHANGED <<modes, sinusoids, frequencies, dc_offset>>]_vars

\* C4: after fit_to_data returns, every amplitude is >= 0, every phase is in
\* [0, 2*pi) and dc_offset is the first entry of the solver's vector.  The
\* code leaves a phase of exactly 2*pi as it is.
C4_FitIsCanonical ==
    (op = "fit_to_data" /\ result = "ok") =>
        /\ dc_offset = arg[1]
        /\ \A i \in 1..Len(sinusoids) :
              /\ sinusoids[i].amplitude >= 0
              /\ sinusoids[i].phase >= 0
              /\ sinusoids[i].phase < TwoPi

\* C5: setting the fit parameters to a vector whose length is not
\* 1 + 2*len(modes) fails, with no Sinusoid mutated and the number of modes
\* and sinusoids unchanged.  The code accepts a vector that is too short,
\* and raises on one that is too long only after it has written all
\* sinusoids.
C5_WrongLengthRejected ==
    [][(op' = "_fit_parameters" /\ Len(arg') # 1 + 2 * Len(modes)) =>
         /\ result' # "ok"
         /\ sinusoids' = sinusoids
         /\ Len(modes') = Len(modes)]_vars

\* C6: when the solver reports that it did not converge, fit_to_data does
\* not return normally.  The code drops the solver's status.
C6_NonConvergenceSurfaced ==
    (op = "fit_to_data" /\ solver_status = "not_converged") => result # "ok"

\* C7: len(modes) == len(_sinusoids) in every reachable state, after failed
\* operations too.
C7_ModesAndSinusoidsCoIndexed == Len(modes) = Len(sinusoids)

\* A modes assignment failed on its second mode, the first one committed.
C7_Witness ==
    /\ op = "modes"
    /\ result = "ValueError"
    /\ Len(arg) = 2
    /\ Len(modes) = 1
    /\ Len(sinusoids) = 1

C9_ReassignmentRebuildsSinusoids ==
    (op \in {"frequencies", "modes"} /\ result = "ok" /\ IsTuple) =>
        /\ Len(sinusoids) = Len(modes)
        /\ \A i \in 1..Len(modes) :
              /\ Len(modes[i]) = Len(frequencies.v)
              /\ sinusoids[i] =
                    Sinusoid(DerivedFrequency(frequencies.v, modes[i]), 0, 0)

====
